---- MODULE Spec2Model ----
(***************************************************************************)
(* Model of the MedXpert report-processing backend:                        *)
(*   api/report_processor.py  (upload pipeline, latest_report store)       *)
(*   api/abnormality_checker.py (value extraction, LLM abnormality check)  *)
(*   api/chatbot.py           (chat over the latest report)                *)
(*   utils/pdf_utils.py, utils/ocr_utils.py (text extraction)              *)
(*                                                                         *)
(* A Python str is a sequence of one-character strings.  A Python value    *)
(* that may or may not be a dict is a tagged record (PyNone, PyDict, ...). *)
(* The external backends (pdfplumber, tesseract, the LLM) are inputs: each *)
(* call's outcome is chosen from a finite set by the caller's action.      *)
(***************************************************************************)
EXTENDS Integers, Sequences, FiniteSets, TLC

\* ------------------------------------------------------------------ bounds

\* longest text fed to detect_abnormalities_llm in SpecAnalyze
MaxLen == 4
\* most pages of a PDF, and longest text of one page, in SpecPdf
MaxPages == 2
MaxPageLen == 2
\* number of upload requests and of chat requests in Spec
MaxUploads == 2
MaxChats == 1

\* ------------------------------------------------------- Python str helpers

\* str used where the code holds None instead of a str
NoneText == <<"None">>

Space == {" ", "\n", "\t"}
Digit == {"0", "1", "2", "3", "4", "5", "6", "7", "8", "9"}
Letter == {"H", "b", "W", "B", "C", "A", "g", "d", "L", "m", "x"}

RECURSIVE RunEnd(_, _, _)
\* index just past the longest run of characters of S that starts at s[i]
RunEnd(s, i, S) ==
  IF i <= Len(s) /\ s[i] \in S THEN RunEnd(s, i + 1, S) ELSE i

RECURSIVE LastOutside(_, _, _)
\* index of the last character of s[1..i] that is not in S (0 if none)
LastOutside(s, i, S) ==
  IF i >= 1 /\ s[i] \in S THEN LastOutside(s, i - 1, S) ELSE i

\* str.strip(): leading and trailing whitespace removed
Strip(s) ==
  LET a == RunEnd(s, 1, Space)
  IN  IF a > Len(s) THEN <<>> ELSE SubSeq(s, a, LastOutside(s, Len(s), Space))

StartsWith(s, i, lit) ==
  /\ i + Len(lit) - 1 <= Len(s)
  /\ SubSeq(s, i, i + Len(lit) - 1) = lit

\* ------------------------------------------------------ Python value helpers

PyNone == [kind |-> "None"]
PyDict(d) == [kind |-> "dict", d |-> d]
PyList(n) == [kind |-> "list", len |-> n]
PyInt(n) == [kind |-> "int", n |-> n]
PyStr(s) == [kind |-> "str", s |-> s]

IsDict(v) == v.kind = "dict"
Keys(v) == IF IsDict(v) THEN DOMAIN v.d ELSE {}

\* Python truth value of `not v`
IsFalsy(v) ==
  \/ v.kind = "None"
  \/ v.kind = "dict" /\ DOMAIN v.d = {}
  \/ v.kind = "list" /\ v.len = 0
  \/ v.kind = "int" /\ v.n = 0
  \/ v.kind = "str" /\ v.s = ""

\* variant testing `extracted_text is None`
TextIsFalsyOnlyNone(t) == t = NoneText

\* `not extracted_text` for a str-or-None
TextIsFalsy(t) == t = NoneText \/ t = <<>>

\* --------------------------------------------- abnormality_checker: regex

\* ([\w\s()%-]+)[\s:-]+([\d.]+)\s*(g/dL|mg/dL|%|x10\^?\d*/?L?)?
LabelChars == Letter \cup Digit \cup {"_"} \cup Space \cup {"(", ")", "%", "-"}
SepChars == Space \cup {":", "-"}
NumChars == Digit \cup {"."}

\* length of the text the unit group matches at s[i] (0: the group is absent)
UnitLen(s, i) ==
  IF StartsWith(s, i, <<"g", "/", "d", "L">>) THEN 4
  ELSE IF StartsWith(s, i, <<"m", "g", "/", "d", "L">>) THEN 5
  ELSE IF StartsWith(s, i, <<"%">>) THEN 1
  ELSE IF StartsWith(s, i, <<"x", "1", "0">>) THEN
    LET j0 == i + 3
        j1 == IF j0 <= Len(s) /\ s[j0] = "^" THEN j0 + 1 ELSE j0
        j2 == RunEnd(s, j1, Digit)
        j3 == IF j2 <= Len(s) /\ s[j2] = "/" THEN j2 + 1 ELSE j2
        j4 == IF j3 <= Len(s) /\ s[j3] = "L" THEN j3 + 1 ELSE j3
    IN  j4 - i
  ELSE 0

SetMax(S) == CHOOSE x \in S : \A y \in S : y <= x

\* the regex matched at position p: the label group is greedy and gives back
\* characters until a separator run followed by a number character follows it
MatchAt(s, p) ==
  LET lmax == RunEnd(s, p, LabelChars)
      ends == {e \in (p + 1)..lmax :
                 LET q == RunEnd(s, e, SepChars)
                 IN  q > e /\ q <= Len(s) /\ s[q] \in NumChars}
  IN  IF ends = {} THEN [found |-> FALSE]
      ELSE LET e == SetMax(ends)
               q == RunEnd(s, e, SepChars)
               n == RunEnd(s, q, NumChars)
               w == RunEnd(s, n, Space)
               u == UnitLen(s, w)
           IN  [found |-> TRUE,
                parameter |-> SubSeq(s, p, e - 1),
                value |-> SubSeq(s, q, n - 1),
                unit |-> SubSeq(s, w, w + u - 1),
                end |-> w + u]

RECURSIVE FindAll(_, _)
\* re.findall: the non-overlapping matches, scanning left to right from p
FindAll(s, p) ==
  IF p > Len(s) THEN <<>>
  ELSE LET m == MatchAt(s, p)
       IN  IF m.found THEN <<m>> \o FindAll(s, m.end) ELSE FindAll(s, p + 1)

RECURSIVE StoreMatches(_, _, _)
\* the loop over matches: extracted_values[parameter] = f"{value} {unit}".strip()
StoreMatches(matches, i, extracted_values) ==
  IF i > Len(matches) THEN extracted_values
  ELSE LET parameter == Strip(matches[i].parameter)
           value == Strip(matches[i].value)
           unit == Strip(matches[i].unit)
           entry == Strip(value \o <<" ">> \o unit)
       IN  StoreMatches(matches, i + 1,
             [k \in DOMAIN extracted_values \cup {parameter} |->
                IF k = parameter THEN entry ELSE extracted_values[k]])

extract_medical_values(text) == StoreMatches(FindAll(text, 1), 1, <<>>)

\* ------------------------------------------- abnormality_checker: LLM check

\* an LLM call either raises (str(e) = msg) or returns a response with .content
LlmRaises(msg) == [raises |-> TRUE, msg |-> msg]
LlmReplies(content) == [raises |-> FALSE, content |-> content]

ConnectionError == "Connection error."
JSONDecodeError == "Expecting value: line 1 column 1 (char 0)"

\* response texts the analysis LLM may produce
ReplyNoFindings == "{\"abnormalities\": []}"
ReplyOneFinding == "{\"abnormalities\": [{\"parameter\": \"H\", \"value\": \"5\"}]}"
ReplyProse == "The hemoglobin value is low."
ReplyEmpty == ""
ReplyList == "[]"
ReplyEmptyObject == "{}"
ReplyOtherKey == "{\"result\": \"normal\"}"
ReplyTwoKeys == "{\"abnormalities\": [], \"error\": \"none\"}"
ReplyNumber == "42"

Replies ==
  {ReplyNoFindings, ReplyOneFinding, ReplyProse, ReplyEmpty, ReplyList,
   ReplyEmptyObject, ReplyOtherKey, ReplyTwoKeys, ReplyNumber}

\* json.loads on those texts: the parsed value, or the JSONDecodeError raised
json_loads(content) ==
  CASE content = ReplyNoFindings ->
         [ok |-> TRUE, value |-> PyDict([abnormalities |-> PyList(0)])]
    [] content = ReplyOneFinding ->
         [ok |-> TRUE, value |-> PyDict([abnormalities |-> PyList(1)])]
    [] content = ReplyList -> [ok |-> TRUE, value |-> PyList(0)]
    [] content = ReplyEmptyObject -> [ok |-> TRUE, value |-> PyDict(<<>>)]
    [] content = ReplyOtherKey ->
         [ok |-> TRUE, value |-> PyDict([result |-> PyStr("normal")])]
    [] content = ReplyTwoKeys ->
         [ok |-> TRUE,
          value |-> PyDict([abnormalities |-> PyList(0), error |-> PyStr("none")])]
    [] content = ReplyNumber -> [ok |-> TRUE, value |-> PyInt(42)]
    [] OTHER -> [ok |-> FALSE, msg |-> JSONDecodeError]

NoValuesMessage == PyDict([message |-> PyStr("No medical values found for analysis.")])
AnalysisError(msg) == PyDict([error |-> PyStr("LLM analysis failed: " \o msg)])

\* a call's outcome: the value returned (or raised = TRUE: an exception left the
\* function) and the number of LLM invocations it made
Returns(v, n) == [raised |-> FALSE, ret |-> v, llm_calls |-> n]
Raises(n) == [raised |-> TRUE, ret |-> PyNone, llm_calls |-> n]

\* variant without the empty-map early return
detect_abnormalities_llm_NoEmptyCheck(text, llm) ==
  IF llm.raises THEN Returns(AnalysisError(llm.msg), 1)
  ELSE LET parsed == json_loads(llm.content)
       IN  IF parsed.ok THEN Returns(parsed.value, 1)
           ELSE Returns(AnalysisError(parsed.msg), 1)

\* variant whose try block covers only the LLM call, not json.loads
detect_abnormalities_llm_ParseOutsideTry(text, llm) ==
  LET extracted_values == extract_medical_values(text)
  IN  IF DOMAIN extracted_values = {} THEN Returns(NoValuesMessage, 0)
      ELSE IF llm.raises THEN Returns(AnalysisError(llm.msg), 1)
      ELSE LET parsed == json_loads(llm.content)
           IN  IF parsed.ok THEN Returns(parsed.value, 1) ELSE Raises(1)

detect_abnormalities_llm(text, llm) ==
  LET extracted_values == extract_medical_values(text)
  IN  IF DOMAIN extracted_values = {} THEN Returns(NoValuesMessage, 0)
      ELSE IF llm.raises THEN Returns(AnalysisError(llm.msg), 1)
      ELSE LET parsed == json_loads(llm.content)
           IN  IF parsed.ok THEN Returns(parsed.value, 1)
               ELSE Returns(AnalysisError(parsed.msg), 1)

\* ------------------------------------------------- pdf_utils and ocr_utils

\* a text-extraction outcome: the str-or-None returned, or an exception raised
Extracted(t) == [raised |-> FALSE, text |-> t]
ExtractionRaises == [raised |-> TRUE, text |-> NoneText]

RECURSIVE PdfPages(_, _, _)
\* the loop `text += page.extract_text() + "\n"`; page.extract_text() gives a
\* str, or None for a page without text, and None + "\n" raises TypeError
PdfPages(pages, i, text) ==
  IF i > Len(pages) THEN Extracted(Strip(text))
  ELSE IF pages[i] = NoneText THEN ExtractionRaises
  ELSE PdfPages(pages, i + 1, text \o pages[i] \o <<"\n">>)

\* pdf: how pdfplumber sees the bytes: opens (else pdfplumber.open raises) and
\* what each page's extract_text() returns
extract_text_from_pdf(pdf) ==
  IF ~pdf.opens THEN ExtractionRaises ELSE PdfPages(pdf.pages, 1, <<>>)

\* image: how PIL/tesseract see the bytes: decodes (else an exception, caught)
\* and the text image_to_string returns
extract_text_from_image(image) ==
  IF ~image.decodes THEN Extracted(NoneText) ELSE Extracted(Strip(image.ocr))

\* ------------------------------------------------------- report_processor

\* str.lower() on the file extensions used
Lower(ext) ==
  CASE ext = "PDF" -> "pdf"
    [] ext = "PNG" -> "png"
    [] ext = "JPG" -> "jpg"
    [] OTHER -> ext

extract_text(file, file_extension) ==
  IF file_extension = "pdf" THEN extract_text_from_pdf(file.pdf)
  ELSE IF file_extension \in {"png", "jpg", "jpeg"} THEN extract_text_from_image(file.image)
  ELSE Extracted(NoneText)

NoTextError == PyDict([error |-> PyStr("Unsupported file format or no text found.")])
SummarizationError(msg) == PyDict([error |-> PyStr("Summarization failed: " \o msg)])
Report(s, a) == PyDict([summary |-> s, abnormalities |-> a])

\* --------------------------------------------------------------- chatbot

NoReportError == PyDict([error |-> PyStr("No medical report found. Please upload one first.")])

\* variant that puts the abnormalities where the summary belongs
ChatContext_WrongField(report, question) ==
  [summary |-> report.d.abnormalities, abnormalities |-> report.d.abnormalities,
   question |-> question]

\* the prompt: the report's summary, its abnormalities, and the question
ChatContext(report, question) ==
  [summary |-> report.d.summary, abnormalities |-> report.d.abnormalities,
   question |-> question]

\* ------------------------------------------------------------------ state

VARIABLES
  latest_report,    \* report_processor.latest_report: PyNone or a Report
  pc,               \* upload r is at: idle, extract, summarize, analyze, store, done, raised
  file,             \* upload r: the uploaded file
  extracted_text,   \* upload r: local extracted_text
  summary,          \* upload r: local summary
  abnormalities,    \* upload r: local abnormalities
  result,           \* upload r: the value process_medical_report returned
  llm_calls,        \* upload r: LLM backend invocations made so far
  failed,           \* upload r: the backends that failed during the run
  wrote,            \* upload r: the run assigned latest_report
  last_writer,      \* the upload that assigned latest_report last (0: none)
  cpc,              \* chat c is at: idle, invoke, done, raised
  cseen,            \* chat c: the report get_latest_report() returned
  cprompt,          \* chat c: the context handed to the LLM
  cresult,          \* chat c: the value chat_with_ai returned
  cllm_calls,       \* chat c: LLM invocations made
  a_pc, a_text, a_llm, a_out,   \* one call of detect_abnormalities_llm (SpecAnalyze)
  p_pc, p_pdf, p_out            \* one call of extract_text_from_pdf (SpecPdf)

svcVars ==
  <<latest_report, pc, file, extracted_text, summary, abnormalities, result,
    llm_calls, failed, wrote, last_writer, cpc, cseen, cprompt, cresult, cllm_calls>>
uploadVars ==
  <<pc, file, extracted_text, summary, abnormalities, result, llm_calls, failed, wrote>>
chatVars == <<cpc, cseen, cprompt, cresult, cllm_calls>>
anaVars == <<a_pc, a_text, a_llm, a_out>>
pdfVars == <<p_pc, p_pdf, p_out>>
vars == <<svcVars, anaVars, pdfVars>>

Uploads == 1..MaxUploads
Chats == 1..MaxChats

\* ------------------------------------------------------------------ inputs

NoPdf == [opens |-> FALSE, pages |-> <<>>]
NoImage == [decodes |-> FALSE, ocr |-> <<>>]
Pdf(pages) == [opens |-> TRUE, pages |-> pages]
Image(text) == [decodes |-> TRUE, ocr |-> text]
File(ext, pdf, image) == [ext |-> ext, pdf |-> pdf, image |-> image]

TextWithValues == <<"H", "b", ":", " ", "5">>
TextWithoutValues == <<"H", "b">>

\* the uploads of Spec: an unsupported extension, an image tesseract fails on,
\* a blank image, a scan with a value, a PDF pdfplumber cannot open, a PDF of
\* one page for which extract_text() gives None, a PDF of one page for which it
\* gives "", a PDF with text but no value
Files ==
  {File("txt", NoPdf, NoImage),
   File("png", NoPdf, NoImage),
   File("PNG", NoPdf, Image(<<" ", "\n">>)),
   File("jpg", NoPdf, Image(TextWithValues \o <<"\n">>)),
   File("pdf", NoPdf, NoImage),
   File("pdf", Pdf(<<NoneText>>), NoImage),
   File("pdf", Pdf(<<<<>>>>), NoImage),
   File("PDF", Pdf(<<TextWithoutValues>>), NoImage)}

Questions == {"Is my hemoglobin low?"}

\* the summarize chain's outcome for upload r; the summaries of different runs
\* are different strings, so a stored summary names the run that produced it
SummaryOutcomes(r) ==
  {LlmRaises(ConnectionError), LlmReplies("summary of upload " \o ToString(r))}

\* the analysis LLM's outcomes in Spec
AnalysisOutcomes ==
  {LlmRaises(ConnectionError), LlmReplies(ReplyProse), LlmReplies(ReplyNoFindings),
   LlmReplies(ReplyOneFinding)}

ChatOutcomes == {LlmRaises(ConnectionError), LlmReplies("Yes, 5 g/dL is low.")}

\* ------------------------------------------------------------------- Init

InitSvc ==
  /\ latest_report = PyNone
  /\ pc = [r \in Uploads |-> "idle"]
  /\ file = [r \in Uploads |-> File("", NoPdf, NoImage)]
  /\ extracted_text = [r \in Uploads |-> NoneText]
  /\ summary = [r \in Uploads |-> PyNone]
  /\ abnormalities = [r \in Uploads |-> PyNone]
  /\ result = [r \in Uploads |-> PyNone]
  /\ llm_calls = [r \in Uploads |-> 0]
  /\ failed = [r \in Uploads |-> {}]
  /\ wrote = [r \in Uploads |-> FALSE]
  /\ last_writer = 0
  /\ cpc = [c \in Chats |-> "idle"]
  /\ cseen = [c \in Chats |-> PyNone]
  /\ cprompt = [c \in Chats |-> PyNone]
  /\ cresult = [c \in Chats |-> PyNone]
  /\ cllm_calls = [c \in Chats |-> 0]

IdleAna ==
  /\ a_pc = "off" /\ a_text = <<>> /\ a_llm = LlmRaises("") /\ a_out = Raises(0)
IdlePdf ==
  /\ p_pc = "off" /\ p_pdf = NoPdf /\ p_out = ExtractionRaises

Init == InitSvc /\ IdleAna /\ IdlePdf

\* ------------------------------------------------- process_medical_report

\* contents = await file.read()
Receive(r) ==
  /\ pc[r] = "idle"
  /\ \E f \in Files : file' = [file EXCEPT ![r] = f]
  /\ pc' = [pc EXCEPT ![r] = "extract"]
  /\ UNCHANGED <<latest_report, extracted_text, summary, abnormalities, result,
                 llm_calls, failed, wrote, last_writer, chatVars, anaVars, pdfVars>>

\* extracted_text = extract_text(contents, file_extension); if not extracted_text: ...
ExtractText(r) ==
  /\ pc[r] = "extract"
  /\ LET x == extract_text(file[r], Lower(file[r].ext))
         ext == Lower(file[r].ext)
         bad == IF ext = "pdf" /\ x.raised THEN {"pdf"}
                ELSE IF ext \in {"png", "jpg", "jpeg"} /\ ~file[r].image.decodes
                THEN {"ocr"} ELSE {}
     IN  /\ failed' = [failed EXCEPT ![r] = @ \cup bad]
         /\ IF x.raised
            THEN /\ pc' = [pc EXCEPT ![r] = "raised"]
                 /\ UNCHANGED <<extracted_text, result>>
            ELSE IF TextIsFalsy(x.text)
            THEN /\ pc' = [pc EXCEPT ![r] = "done"]
                 /\ result' = [result EXCEPT ![r] = NoTextError]
                 /\ extracted_text' = [extracted_text EXCEPT ![r] = x.text]
            ELSE /\ pc' = [pc EXCEPT ![r] = "summarize"]
                 /\ extracted_text' = [extracted_text EXCEPT ![r] = x.text]
                 /\ UNCHANGED result
  /\ UNCHANGED <<latest_report, file, summary, abnormalities, llm_calls, wrote,
                 last_writer, chatVars, anaVars, pdfVars>>

\* summary = summary_chain.run(docs), inside try/except
Summarize(r) ==
  /\ pc[r] = "summarize"
  /\ \E o \in SummaryOutcomes(r) :
       IF o.raises
       THEN /\ pc' = [pc EXCEPT ![r] = "done"]
            /\ result' = [result EXCEPT ![r] = SummarizationError(o.msg)]
            /\ failed' = [failed EXCEPT ![r] = @ \cup {"summarize"}]
            /\ UNCHANGED summary
       ELSE /\ pc' = [pc EXCEPT ![r] = "analyze"]
            /\ summary' = [summary EXCEPT ![r] = PyStr(o.content)]
            /\ UNCHANGED <<result, failed>>
  /\ llm_calls' = [llm_calls EXCEPT ![r] = @ + 1]
  /\ UNCHANGED <<latest_report, file, extracted_text, abnormalities, wrote,
                 last_writer, chatVars, anaVars, pdfVars>>

\* abnormalities = detect_abnormalities_llm(extracted_text)
Analyze(r) ==
  /\ pc[r] = "analyze"
  /\ \E o \in AnalysisOutcomes :
       LET a == detect_abnormalities_llm(extracted_text[r], o)
       IN  /\ llm_calls' = [llm_calls EXCEPT ![r] = @ + a.llm_calls]
           /\ failed' = [failed EXCEPT ![r] =
                           IF a.llm_calls > 0 /\ o.raises THEN @ \cup {"analyze"} ELSE @]
           /\ IF a.raised
              THEN /\ pc' = [pc EXCEPT ![r] = "raised"]
                   /\ UNCHANGED abnormalities
              ELSE /\ pc' = [pc EXCEPT ![r] = "store"]
                   /\ abnormalities' = [abnormalities EXCEPT ![r] = a.ret]
  /\ UNCHANGED <<latest_report, file, extracted_text, summary, result, wrote,
                 last_writer, chatVars, anaVars, pdfVars>>

\* variant that updates the stored report field by field, keeping the stored
\* summary when there is one
StoreReport_Merge(r) ==
  /\ pc[r] = "store"
  /\ latest_report' =
       IF IsFalsy(latest_report) THEN Report(summary[r], abnormalities[r])
       ELSE Report(latest_report.d.summary, abnormalities[r])
  /\ result' = [result EXCEPT ![r] = Report(summary[r], abnormalities[r])]
  /\ wrote' = [wrote EXCEPT ![r] = TRUE]
  /\ last_writer' = r
  /\ pc' = [pc EXCEPT ![r] = "done"]
  /\ UNCHANGED <<file, extracted_text, summary, abnormalities, llm_calls, failed,
                 chatVars, anaVars, pdfVars>>

\* variant that clears the store when the analysis gave no findings object
StoreReport_ClearOnError(r) ==
  /\ pc[r] = "store"
  /\ latest_report' =
       IF "abnormalities" \in Keys(abnormalities[r])
       THEN Report(summary[r], abnormalities[r]) ELSE PyNone
  /\ result' = [result EXCEPT ![r] = Report(summary[r], abnormalities[r])]
  /\ wrote' = [wrote EXCEPT ![r] = TRUE]
  /\ last_writer' = r
  /\ pc' = [pc EXCEPT ![r] = "done"]
  /\ UNCHANGED <<file, extracted_text, summary, abnormalities, llm_calls, failed,
                 chatVars, anaVars, pdfVars>>

\* latest_report = {...}; return {"summary": summary, "abnormalities": abnormalities}
StoreReport(r) ==
  /\ pc[r] = "store"
  /\ latest_report' = Report(summary[r], abnormalities[r])
  /\ result' = [result EXCEPT ![r] = Report(summary[r], abnormalities[r])]
  /\ wrote' = [wrote EXCEPT ![r] = TRUE]
  /\ last_writer' = r
  /\ pc' = [pc EXCEPT ![r] = "done"]
  /\ UNCHANGED <<file, extracted_text, summary, abnormalities, llm_calls, failed,
                 chatVars, anaVars, pdfVars>>

get_latest_report == latest_report

\* ------------------------------------------------------------ chat_with_ai

\* report = get_latest_report(); if not report: return {"error": ...}; context = ...
ChatRead(c) ==
  /\ cpc[c] = "idle"
  /\ \E question \in Questions :
       LET report == get_latest_report
       IN  /\ cseen' = [cseen EXCEPT ![c] = report]
           /\ IF IsFalsy(report)
              THEN /\ cpc' = [cpc EXCEPT ![c] = "done"]
                   /\ cresult' = [cresult EXCEPT ![c] = NoReportError]
                   /\ UNCHANGED cprompt
              ELSE /\ cpc' = [cpc EXCEPT ![c] = "invoke"]
                   /\ cprompt' = [cprompt EXCEPT ![c] = PyDict(ChatContext(report, question))]
                   /\ UNCHANGED cresult
  /\ UNCHANGED <<latest_report, uploadVars, last_writer, cllm_calls, anaVars, pdfVars>>

\* response = llm.invoke(context); return {"response": response.content}
ChatInvoke(c) ==
  /\ cpc[c] = "invoke"
  /\ \E o \in ChatOutcomes :
       IF o.raises
       THEN /\ cpc' = [cpc EXCEPT ![c] = "raised"]
            /\ UNCHANGED cresult
       ELSE /\ cpc' = [cpc EXCEPT ![c] = "done"]
            /\ cresult' = [cresult EXCEPT ![c] = PyDict([response |-> PyStr(o.content)])]
  /\ cllm_calls' = [cllm_calls EXCEPT ![c] = @ + 1]
  /\ UNCHANGED <<latest_report, uploadVars, last_writer, cseen, cprompt, anaVars, pdfVars>>

Next ==
  \/ \E r \in Uploads : Receive(r)
  \/ \E r \in Uploads : ExtractText(r)
  \/ \E r \in Uploads : Summarize(r)
  \/ \E r \in Uploads : Analyze(r)
  \/ \E r \in Uploads : StoreReport(r)
  \/ \E c \in Chats : ChatRead(c)
  \/ \E c \in Chats : ChatInvoke(c)

Spec == Init /\ [][Next]_vars

\* -------------------------------- detect_abnormalities_llm as a function

\* one character of each class the regex tells apart: a letter, a digit, the
\* decimal point, whitespace, a separator, a unit, and a character of no class
AnaChars == {"H", "5", ".", " ", ":", "%", ","}
AnaTexts == UNION {[1..n -> AnaChars] : n \in 0..MaxLen}
AnaOutcomes == {LlmRaises(ConnectionError)} \cup {LlmReplies(c) : c \in Replies}

InitAnalyze ==
  /\ InitSvc /\ IdlePdf
  /\ a_pc = "call"
  /\ a_text \in AnaTexts
  /\ a_llm = LlmRaises("")
  /\ a_out = Raises(0)

\* detect_abnormalities_llm(a_text), the LLM answering a_llm if it is asked
AnalyzeCall ==
  /\ a_pc = "call"
  /\ \E o \in AnaOutcomes :
       /\ a_llm' = o
       /\ a_out' = detect_abnormalities_llm(a_text, o)
  /\ a_pc' = "returned"
  /\ UNCHANGED <<a_text, svcVars, pdfVars>>

NextAnalyze == AnalyzeCall

SpecAnalyze == InitAnalyze /\ [][NextAnalyze]_vars

\* ----------------------------------- extract_text_from_pdf as a function

PdfChars == {"H", " ", "\n"}
PageTexts == UNION {[1..n -> PdfChars] : n \in 0..MaxPageLen}
\* what page.extract_text() may return: a str, or None for a page without text
PageResults == PageTexts \cup {NoneText}
Documents == UNION {[1..n -> PageResults] : n \in 0..MaxPages}

InitPdf ==
  /\ InitSvc /\ IdleAna
  /\ p_pc = "call"
  /\ p_pdf \in {NoPdf} \cup {Pdf(pages) : pages \in Documents}
  /\ p_out = ExtractionRaises

PdfCall ==
  /\ p_pc = "call"
  /\ p_out' = extract_text_from_pdf(p_pdf)
  /\ p_pc' = "returned"
  /\ UNCHANGED <<p_pdf, svcVars, anaVars>>

NextPdf == PdfCall

SpecPdf == InitPdf /\ [][NextPdf]_vars

\* ----------------------------------------------------------------- claims

ReportKeys == {"summary", "abnormalities"}

\* the run's extraction has returned (it did not raise)
Extraction(r) == pc[r] \in {"summarize", "analyze", "store", "done"}

\* a stage of run r ended in an error: no text, summarization raised, or the
\* analysis returned its {"error": ...} shape
StageError(r) ==
  \/ Extraction(r) /\ TextIsFalsy(extracted_text[r])
  \/ "summarize" \in failed[r]
  \/ "error" \in Keys(abnormalities[r])

\* C1: a finished run one of whose stages ended in an error returned a payload
\* whose only key is "error" and did not write the Report Store.
C1_StageErrorNotStored ==
  \A r \in Uploads :
    (pc[r] = "done" /\ StageError(r)) =>
      (Keys(result[r]) = {"error"} /\ ~wrote[r])

\* C2: when text extraction yields None or "", the run returns exactly
\* {"error": "Unsupported file format or no text found."}, makes no LLM call
\* and does not write the Report Store.
C2_NoTextShortCircuits ==
  \A r \in Uploads :
    (Extraction(r) /\ (extracted_text[r] = NoneText \/ extracted_text[r] = <<>>)) =>
      /\ pc[r] = "done"
      /\ result[r] = PyDict([error |-> PyStr("Unsupported file format or no text found.")])
      /\ llm_calls[r] = 0
      /\ ~wrote[r]

\* a blank image was uploaded after a report had been stored, and was refused
C2_Witness ==
  \E r \in Uploads :
    /\ pc[r] = "done" /\ extracted_text[r] = <<>> /\ file[r].ext = "PNG"
    /\ Keys(result[r]) = {"error"}
    /\ latest_report # PyNone

\* C3: a chat that read an empty store returned exactly the "No medical report
\* found" error and made no LLM call; a chat that read a non-empty store hands
\* the LLM that report (one call once it has been made).
C3_ChatNeedsReport ==
  \A c \in Chats :
    cpc[c] # "idle" =>
      IF cseen[c] = PyNone
      THEN /\ cpc[c] = "done"
           /\ cresult[c] =
                PyDict([error |-> PyStr("No medical report found. Please upload one first.")])
           /\ cllm_calls[c] = 0
      ELSE /\ cllm_calls[c] = (IF cpc[c] = "invoke" THEN 0 ELSE 1)
           /\ \E q \in Questions :
                cprompt[c] = PyDict([summary |-> cseen[c].d.summary,
                                     abnormalities |-> cseen[c].d.abnormalities,
                                     question |-> q])

\* a chat was refused while an upload that will succeed was still running
C3_Witness ==
  \E c \in Chats :
    /\ cpc[c] = "done" /\ cseen[c] = PyNone /\ cllm_calls[c] = 0
    /\ \E r \in Uploads : pc[r] = "store"

\* C4: with an empty parameter map the result is exactly {"message": "No medical
\* values found for analysis."} and the LLM is not invoked; with a non-empty
\* map the LLM is invoked exactly once.
C4_EmptyMapNoLlm ==
  a_pc = "returned" =>
    IF DOMAIN extract_medical_values(a_text) = {}
    THEN /\ a_out.ret = PyDict([message |-> PyStr("No medical values found for analysis.")])
         /\ a_out.llm_calls = 0
    ELSE a_out.llm_calls = 1

\* a text with a digit but no label-separator-number pattern was analysed
C4_Witness ==
  /\ a_pc = "returned"
  /\ a_text = <<"H", "5">>
  /\ Keys(a_out.ret) = {"message"}
  /\ a_out.llm_calls = 0

\* C5: with a non-empty map, an LLM call that raises or a response that is not
\* JSON gives {"error": "LLM analysis failed: <message>"}, and no exception
\* leaves the function.
C5_AnalysisFailureIsPayload ==
  a_pc = "returned" =>
    /\ ~a_out.raised
    /\ (/\ DOMAIN extract_medical_values(a_text) # {}
        /\ (a_llm.raises \/ a_llm.content \in {ReplyProse, ReplyEmpty})) =>
         \E m \in {ConnectionError, JSONDecodeError} :
           a_out.ret = PyDict([error |-> PyStr("LLM analysis failed: " \o m)])

\* the LLM answered a value in prose
C5_Witness ==
  /\ a_pc = "returned"
  /\ a_text = <<"H", ":", "5">>
  /\ a_llm = LlmReplies(ReplyProse)
  /\ Keys(a_out.ret) = {"error"}

\* C6: the value detect_abnormalities_llm returns is a mapping with exactly one
\* of the keys "abnormalities", "message", "error".
C6_TaggedUnion ==
  a_pc = "returned" =>
    /\ IsDict(a_out.ret)
    /\ Cardinality(Keys(a_out.ret) \cap {"abnormalities", "message", "error"}) = 1

\* C7: the store is empty, or it holds the summary and the abnormalities of the
\* run that wrote last, both from that one run.
C7_StoreIsLastWritersReport ==
  IF last_writer = 0 THEN latest_report = PyNone
  ELSE /\ Keys(latest_report) = ReportKeys
       /\ latest_report.d.summary = summary[last_writer]
       /\ latest_report.d.abnormalities = abnormalities[last_writer]
       /\ wrote[last_writer]

\* two uploads both succeeded with different findings; upload 1 wrote last
C7_Witness ==
  /\ wrote[1] /\ wrote[2] /\ last_writer = 1
  /\ abnormalities[1] # abnormalities[2]

RECURSIVE JoinPages(_, _)
\* the pages' texts joined by newlines, a page without text counting as ""
JoinPages(pages, i) ==
  IF i > Len(pages) THEN <<>>
  ELSE (IF pages[i] = NoneText THEN <<>> ELSE pages[i])
       \o (IF i < Len(pages) THEN <<"\n">> ELSE <<>>)
       \o JoinPages(pages, i + 1)

\* trailing whitespace removed
RStrip(s) == SubSeq(s, 1, LastOutside(s, Len(s), Space))

\* C8: for a PDF that opens, extract_text_from_pdf does not fail and returns
\* the newline-joined page texts, a page without text contributing "", with
\* trailing whitespace trimmed.
C8_PdfPagesJoined ==
  (p_pc = "returned" /\ p_pdf.opens) =>
    /\ ~p_out.raised
    /\ p_out.text = RStrip(JoinPages(p_pdf.pages, 1))

\* C9: no exception leaves process_medical_report or chat_with_ai, and a
\* request during which a backend failed returns an object with an "error" or
\* "message" field.
C9_NoRawException ==
  /\ \A r \in Uploads :
       /\ pc[r] # "raised"
       /\ (pc[r] = "done" /\ failed[r] # {}) =>
            Keys(result[r]) \cap {"error", "message"} # {}
  /\ \A c \in Chats : cpc[c] # "raised"

\* C10: once the store holds a report it holds one (with both keys) ever after,
\* and a chat that reads it from then on is not refused.
C10_StoreNeverEmptied ==
  [][latest_report # PyNone =>
       /\ latest_report' # PyNone
       /\ Keys(latest_report') = ReportKeys
       /\ \A c \in Chats :
            (cpc[c] = "idle" /\ cpc'[c] # "idle") =>
              /\ cseen'[c] # PyNone
              /\ "error" \notin Keys(cresult'[c])]_vars

\* a report was stored, an upload failed, and a chat was answered
C10_Witness ==
  /\ latest_report # PyNone
  /\ \E r \in Uploads : pc[r] = "done" /\ ~wrote[r] /\ "summarize" \in failed[r]
  /\ \E c \in Chats : cpc[c] = "done" /\ "response" \in Keys(cresult[c])

====
